---- MODULE Spec2Model ----
(***************************************************************************)
(* Model of src/src/server.ts: the three POST handlers (/api/text,         *)
(* /api/image, /api/pdf), the provider switch of each, the per-provider    *)
(* adapter functions, and the consumption of Google's streamed response.   *)
(*                                                                         *)
(* Every request is one async handler invocation.  A handler runs          *)
(* synchronously up to its first await; the suspension points are the      *)
(* awaited backend promise and every iteration of `for await`.  The        *)
(* backends (Google GenAI, OpenAI, DeepSeek) are the environment: they     *)
(* resolve, reject, yield chunks, end or fault nondeterministically.       *)
(***************************************************************************)
EXTENDS Integers, Sequences, FiniteSets, TLC

(***************************************************************************)
(* Bounds of the model.                                                    *)
(***************************************************************************)
NumReqs == 2        \* request slots (handler invocations that may coexist)
MaxChunks == 2      \* chunks a streamed response yields at most

Reqs == 1..NumReqs

(***************************************************************************)
(* JavaScript values: undefined, null and strings.                         *)
(***************************************************************************)
Undefined == [t |-> "undefined"]
Null == [t |-> "null"]
Str(s) == [t |-> "string", v |-> s]

\* ToBoolean: undefined, null and '' are falsy.
Truthy(x) == x.t = "string" /\ x.v # ""

\* a || b
OrElse(a, b) == IF Truthy(a) THEN a ELSE b

\* `{ provider = 'google' } = req.body`: the default applies to undefined only.
DestructureDefault(x, d) == IF x = Undefined THEN d ELSE x

\* ToString, as applied by `+=` on a string and by template literals.
JSToString(x) == IF x.t = "string" THEN x.v ELSE x.t

\* String.prototype.startsWith
startsWith(s, prefix) ==
  /\ Len(s) >= Len(prefix)
  /\ SubSeq(s, 1, Len(prefix)) = prefix

\* JSON.stringify({ error: msg }) for a message without characters to escape.
JSONstringifyError(msg) == "{\"error\":\"" \o msg \o "\"}"

\* Buffer.prototype.toString('base64')
Base64Alphabet == "ABCDEFGHIJKLMNOPQRSTUVWXYZabcdefghijklmnopqrstuvwxyz0123456789+/"
Base64Char(i) == SubSeq(Base64Alphabet, i + 1, i + 1)
RECURSIVE toBase64(_)
toBase64(b) ==
  IF Len(b) = 0 THEN ""
  ELSE IF Len(b) = 1 THEN
    Base64Char(b[1] \div 4) \o Base64Char((b[1] % 4) * 16) \o "=="
  ELSE IF Len(b) = 2 THEN
    Base64Char(b[1] \div 4) \o Base64Char((b[1] % 4) * 16 + b[2] \div 16)
      \o Base64Char((b[2] % 16) * 4) \o "="
  ELSE
    Base64Char(b[1] \div 4) \o Base64Char((b[1] % 4) * 16 + b[2] \div 16)
      \o Base64Char((b[2] % 16) * 4 + b[3] \div 64) \o Base64Char(b[3] % 64)
      \o toBase64(SubSeq(b, 4, Len(b)))

(***************************************************************************)
(* Inputs a client can send.                                               *)
(***************************************************************************)
Providers == {Undefined, Null, Str(""), Str("google"), Str("openai"),
              Str("deepseek"), Str("unknown-id")}
Texts == {Undefined, Null, Str(""), Str("hello")}
Questions == {Undefined, Str(""), Str("Why?")}
MimeTypes == {"image/png", "image/", "image", "Image/png", "text/plain",
              "application/pdf", "application/pdf;v=1", "application/PDF"}
Buffers == {<< >>, <<77, 97>>, <<37, 80, 68, 70>>}
Files == {Undefined} \cup [mimetype : MimeTypes, buffer : Buffers]

(***************************************************************************)
(* What the backends can answer.                                           *)
(***************************************************************************)
\* chat.completions.create: no choice, or one choice with some content
Completions == {[choices |-> << >>]} \cup
  {[choices |-> <<[message |-> [content |-> c]]>>] :
     c \in {Null, Str(""), Str("{\"ok\":1}")}}
\* generateContentStream: chunk.text is a string or undefined
Chunks == {[text |-> Str("Hel")], [text |-> Str("lo")], [text |-> Undefined]}
\* what a rejected call or a faulting stream throws
Causes == {"401 Incorrect API key provided: sk-live"}

NoReq == [endpoint |-> "none"]

VARIABLES
  pc,            \* position of each handler invocation
  req,           \* the request each invocation serves
  adapterCalls,  \* calls of process*With* made by the invocation
  backendCalls,  \* backend client calls made by the invocation
  delivered,     \* what the backend has answered the invocation so far
  result,        \* the invocation's local `result`
  sent,          \* responses written with res.json
  log            \* console.error output of the invocation

vars == <<pc, req, adapterCalls, backendCalls, delivered, result, sent, log>>

Init ==
  /\ pc = [r \in Reqs |-> "idle"]
  /\ req = [r \in Reqs |-> NoReq]
  /\ adapterCalls = [r \in Reqs |-> << >>]
  /\ backendCalls = [r \in Reqs |-> << >>]
  /\ delivered = [r \in Reqs |-> << >>]
  /\ result = [r \in Reqs |-> Undefined]
  /\ sent = [r \in Reqs |-> << >>]
  /\ log = [r \in Reqs |-> << >>]

(***************************************************************************)
(* Pieces of the handlers.                                                 *)
(***************************************************************************)
Response(status, body) == [status |-> status, body |-> body]

\* res.status(s).json(b) / res.json(b): the invocation writes its response.
Send(r, status, body) == sent' = [sent EXCEPT ![r] = Append(@, Response(status, body))]

\* textValidation testing `text === undefined` instead of `!text`
textValidationUndefinedOnly(text) ==
  IF text = Undefined THEN "Text is required" ELSE "ok"

\* `if (!text)` of /api/text
textValidation(text) ==
  IF ~Truthy(text) THEN "Text is required" ELSE "ok"

\* imageValidation testing the prefix 'image' without the slash
imageValidationNoSlash(file) ==
  IF file = Undefined THEN "Image file is required"
  ELSE IF ~startsWith(file.mimetype, "image") THEN "File must be an image"
  ELSE "ok"

\* `if (!file)` and `if (!file.mimetype.startsWith('image/'))` of /api/image
imageValidation(file) ==
  IF file = Undefined THEN "Image file is required"
  ELSE IF ~startsWith(file.mimetype, "image/") THEN "File must be an image"
  ELSE "ok"

\* pdfValidation testing a prefix instead of equality
pdfValidationPrefix(file) ==
  IF file = Undefined THEN "PDF file is required"
  ELSE IF ~startsWith(file.mimetype, "application/pdf") THEN "File must be a PDF"
  ELSE "ok"

\* `if (!file)` and `if (file.mimetype !== 'application/pdf')` of /api/pdf
pdfValidation(file) ==
  IF file = Undefined THEN "PDF file is required"
  ELSE IF file.mimetype # "application/pdf" THEN "File must be a PDF"
  ELSE "ok"

\* imageQuestionText with the default prompt of the other endpoint
imageQuestionTextPdfDefault(question) == OrElse(question, Str("What are you seeing in this PDF?"))

\* `question || '...'` of /api/image and /api/pdf
imageQuestionText(question) == OrElse(question, Str("What are you seeing in this picture?"))
pdfQuestionText(question) == OrElse(question, Str("What are you seeing in this PDF?"))

\* textSwitch without `default:` on the google case: unknown providers fall
\* into the last case written
textSwitchNoDefault(provider) ==
  CASE provider = Str("openai") -> "processTextWithOpenAI"
    [] provider = Str("google") -> "processTextWithGoogle"
    [] OTHER -> "processTextWithDeepSeek"

\* the provider switch of /api/text
textSwitch(provider) ==
  CASE provider = Str("openai") -> "processTextWithOpenAI"
    [] provider = Str("deepseek") -> "processTextWithDeepSeek"
    [] OTHER -> "processTextWithGoogle"

\* imageSwitch sending deepseek through the OpenAI-compatible adapter
imageSwitchDeepSeekAsOpenAI(provider) ==
  CASE provider = Str("openai") -> "processImageWithOpenAI"
    [] provider = Str("deepseek") -> "processImageWithOpenAI"
    [] OTHER -> "processImageWithGoogle"

\* the provider switch of /api/image
imageSwitch(provider) ==
  CASE provider = Str("openai") -> "processImageWithOpenAI"
    [] provider = Str("deepseek") -> "processImageWithDeepSeek"
    [] OTHER -> "processImageWithGoogle"

\* the provider switch of /api/pdf: "gap" is the branch of openai and deepseek
pdfSwitch(provider) ==
  CASE provider = Str("openai") -> "gap"
    [] provider = Str("deepseek") -> "gap"
    [] OTHER -> "google"

\* pdfGapResult with the provider name written out instead of interpolated
pdfGapResultFixedName(provider) ==
  Str(JSONstringifyError("openai does not currently support PDF analysis"))

\* the string the openai/deepseek branch of /api/pdf assigns to result
pdfGapResult(provider) ==
  Str(JSONstringifyError(JSToString(provider) \o " does not currently support PDF analysis"))

\* what processImageWithDeepSeek returns
processImageWithDeepSeek(base64Data, mimeType, question) ==
  Str(JSONstringifyError("DeepSeek does not currently support image analysis"))

SystemPrompt ==
  "You must respond with valid JSON format. Structure your response as a JSON object with relevant fields."

\* the backend call each adapter makes with its arguments
processTextWithGoogle(text) ==
  [client |-> "googleAI", method |-> "generateContentStream",
   model |-> "gemini-2.0-flash", responseMimeType |-> "application/json",
   parts |-> <<[text |-> text]>>]

processTextWithOpenAI(text) ==
  [client |-> "openAI", method |-> "create", model |-> "gpt-4o",
   system |-> SystemPrompt, user |-> <<[text |-> text]>>]

processTextWithDeepSeek(text) ==
  [client |-> "deepseekAI", method |-> "create", model |-> "deepseek-chat",
   system |-> SystemPrompt, user |-> <<[text |-> text]>>]

processImageWithGoogle(base64Data, mimeType, question) ==
  [client |-> "googleAI", method |-> "generateContentStream",
   model |-> "gemini-2.0-flash", responseMimeType |-> "application/json",
   parts |-> <<[inlineData |-> [data |-> base64Data, mimeType |-> mimeType]],
               [text |-> question]>>]

processImageWithOpenAI(base64Data, mimeType, question) ==
  [client |-> "openAI", method |-> "create", model |-> "gpt-4o",
   system |-> SystemPrompt,
   user |-> <<[text |-> question],
              [image_url |-> "data:" \o mimeType \o ";base64," \o base64Data]>>]

\* the inline generateContentStream call of /api/pdf
pdfGoogleCall(base64Data, questionText) ==
  [client |-> "googleAI", method |-> "generateContentStream",
   model |-> "gemini-2.0-flash", responseMimeType |-> "application/json",
   parts |-> <<[inlineData |-> [data |-> base64Data, mimeType |-> "application/pdf"]],
               [text |-> questionText]>>]

\* completionContent without the `|| ''`
completionContentRaw(response) ==
  IF Len(response.choices) = 0 THEN Undefined
  ELSE response.choices[1].message.content

\* response.choices[0]?.message?.content || ''
completionContent(response) ==
  OrElse(IF Len(response.choices) = 0 THEN Undefined
         ELSE response.choices[1].message.content, Str(""))

\* accumulate on one `result` shared by all invocations
accumulateShared(res, r, chunk) ==
  [q \in Reqs |-> IF res[q].t = "string" THEN Str(res[q].v \o JSToString(chunk.text))
                  ELSE res[q]]

\* result += chunk.text, on the invocation's own local
accumulate(res, r, chunk) ==
  [res EXCEPT ![r] = Str(@.v \o JSToString(chunk.text))]

\* catchResponse answering with what has been accumulated so far
catchResponsePartial(r, cause) ==
  IF result[r].t = "string" THEN Response(200, [response |-> result[r]])
  ELSE Response(500, [error |-> "Internal server error"])

\* the catch block: what it logs and what it answers
catchLog(endpoint, cause) ==
  (CASE endpoint = "text" -> "Error processing text:"
     [] endpoint = "image" -> "Error processing image:"
     [] OTHER -> "Error processing PDF:") \o " " \o cause
catchResponse(r, cause) == Response(500, [error |-> "Internal server error"])

Request(endpoint, text, question, provider, file) ==
  [endpoint |-> endpoint, text |-> text, question |-> question,
   provider |-> provider, file |-> file]

(***************************************************************************)
(* The handlers, from the arrival of the request to their first await or   *)
(* to their response.                                                      *)
(***************************************************************************)
\* app.post('/api/text')
PostApiText(r, text, providerField) ==
  /\ pc[r] = "idle"
  /\ req' = [req EXCEPT ![r] = Request("text", text, Undefined, providerField, Undefined)]
  /\ LET provider == DestructureDefault(providerField, Str("google"))
         fn == textSwitch(provider)
     IN IF textValidation(text) # "ok"
        THEN /\ Send(r, 400, [error |-> textValidation(text)])
             /\ pc' = [pc EXCEPT ![r] = "done"]
             /\ UNCHANGED <<adapterCalls, backendCalls>>
        ELSE /\ adapterCalls' = [adapterCalls EXCEPT ![r] =
                                   Append(@, [fn |-> fn, args |-> <<text>>])]
             /\ backendCalls' = [backendCalls EXCEPT ![r] = Append(@,
                  CASE fn = "processTextWithOpenAI" -> processTextWithOpenAI(text)
                    [] fn = "processTextWithDeepSeek" -> processTextWithDeepSeek(text)
                    [] OTHER -> processTextWithGoogle(text))]
             /\ pc' = [pc EXCEPT ![r] = "awaitCall"]
             /\ UNCHANGED sent
  /\ UNCHANGED <<delivered, result, log>>

\* app.post('/api/image'), behind upload.single('image')
PostApiImage(r, file, question, providerField) ==
  /\ pc[r] = "idle"
  /\ req' = [req EXCEPT ![r] = Request("image", Undefined, question, providerField, file)]
  /\ IF imageValidation(file) # "ok"
     THEN /\ Send(r, 400, [error |-> imageValidation(file)])
          /\ pc' = [pc EXCEPT ![r] = "done"]
          /\ UNCHANGED <<adapterCalls, backendCalls>>
     ELSE LET provider == DestructureDefault(providerField, Str("google"))
              base64Data == toBase64(file.buffer)
              questionText == imageQuestionText(question)
              fn == imageSwitch(provider)
          IN /\ adapterCalls' = [adapterCalls EXCEPT ![r] = Append(@,
                  [fn |-> fn, args |-> <<base64Data, file.mimetype, questionText>>])]
             /\ IF fn = "processImageWithDeepSeek"
                THEN /\ pc' = [pc EXCEPT ![r] = "awaitAdapter"]
                     /\ UNCHANGED backendCalls
                ELSE /\ backendCalls' = [backendCalls EXCEPT ![r] = Append(@,
                          IF fn = "processImageWithOpenAI"
                          THEN processImageWithOpenAI(base64Data, file.mimetype, questionText)
                          ELSE processImageWithGoogle(base64Data, file.mimetype, questionText))]
                     /\ pc' = [pc EXCEPT ![r] = "awaitCall"]
             /\ UNCHANGED sent
  /\ UNCHANGED <<delivered, result, log>>

\* app.post('/api/pdf'), behind upload.single('pdf')
PostApiPdf(r, file, question, providerField) ==
  /\ pc[r] = "idle"
  /\ req' = [req EXCEPT ![r] = Request("pdf", Undefined, question, providerField, file)]
  /\ IF pdfValidation(file) # "ok"
     THEN /\ Send(r, 400, [error |-> pdfValidation(file)])
          /\ pc' = [pc EXCEPT ![r] = "done"]
          /\ UNCHANGED <<backendCalls, result>>
     ELSE LET provider == DestructureDefault(providerField, Str("google"))
              base64Data == toBase64(file.buffer)
              questionText == pdfQuestionText(question)
          IN IF pdfSwitch(provider) = "gap"
             THEN /\ result' = [result EXCEPT ![r] = pdfGapResult(provider)]
                  /\ Send(r, 200, [response |-> pdfGapResult(provider)])
                  /\ pc' = [pc EXCEPT ![r] = "done"]
                  /\ UNCHANGED backendCalls
             ELSE /\ backendCalls' = [backendCalls EXCEPT ![r] =
                        Append(@, pdfGoogleCall(base64Data, questionText))]
                  /\ pc' = [pc EXCEPT ![r] = "awaitCall"]
                  /\ UNCHANGED <<result, sent>>
  /\ UNCHANGED <<adapterCalls, delivered, log>>

(***************************************************************************)
(* The resumptions of a suspended handler.                                 *)
(***************************************************************************)
\* `await processImageWithDeepSeek(...)` resumes with the returned string.
AdapterReturns(r) ==
  /\ pc[r] = "awaitAdapter"
  /\ LET call == adapterCalls[r][Len(adapterCalls[r])]
         value == processImageWithDeepSeek(call.args[1], call.args[2], call.args[3])
     IN /\ result' = [result EXCEPT ![r] = value]
        /\ Send(r, 200, [response |-> value])
  /\ pc' = [pc EXCEPT ![r] = "done"]
  /\ UNCHANGED <<req, adapterCalls, backendCalls, delivered, log>>

Pending(r, method) ==
  /\ pc[r] = "awaitCall"
  /\ backendCalls[r][Len(backendCalls[r])].method = method

\* chat.completions.create resolves: the adapter returns, the handler answers.
CompletionResolves(r, response) ==
  /\ Pending(r, "create")
  /\ delivered' = [delivered EXCEPT ![r] = Append(@, response)]
  /\ result' = [result EXCEPT ![r] = completionContent(response)]
  /\ Send(r, 200, [response |-> completionContent(response)])
  /\ pc' = [pc EXCEPT ![r] = "done"]
  /\ UNCHANGED <<req, adapterCalls, backendCalls, log>>

\* generateContentStream resolves with a stream: `result = ''`, loop entered.
StreamOpens(r) ==
  /\ Pending(r, "generateContentStream")
  /\ result' = [result EXCEPT ![r] = Str("")]
  /\ pc' = [pc EXCEPT ![r] = "streaming"]
  /\ UNCHANGED <<req, adapterCalls, backendCalls, delivered, sent, log>>

\* one iteration of `for await (const chunk of response)`
StreamYields(r, chunk) ==
  /\ pc[r] = "streaming"
  /\ Len(delivered[r]) < MaxChunks
  /\ delivered' = [delivered EXCEPT ![r] = Append(@, chunk)]
  /\ result' = accumulate(result, r, chunk)
  /\ UNCHANGED <<pc, req, adapterCalls, backendCalls, sent, log>>

\* the stream is exhausted: the loop ends and the handler answers.
StreamEnds(r) ==
  /\ pc[r] = "streaming"
  /\ Send(r, 200, [response |-> result[r]])
  /\ pc' = [pc EXCEPT ![r] = "done"]
  /\ UNCHANGED <<req, adapterCalls, backendCalls, delivered, result, log>>

\* Catch logging the error and leaving the request without response
CatchSilent(r, cause) ==
  /\ log' = [log EXCEPT ![r] = Append(@, catchLog(req[r].endpoint, cause))]
  /\ pc' = [pc EXCEPT ![r] = "done"]
  /\ UNCHANGED <<req, adapterCalls, backendCalls, delivered, result, sent>>

\* Catch issuing the failed backend call once more before giving up
CatchRetry(r, cause) ==
  IF Len(backendCalls[r]) = 1
  THEN /\ log' = [log EXCEPT ![r] = Append(@, catchLog(req[r].endpoint, cause))]
       /\ backendCalls' = [backendCalls EXCEPT ![r] = Append(@, @[1])]
       /\ delivered' = [delivered EXCEPT ![r] = << >>]
       /\ pc' = [pc EXCEPT ![r] = "awaitCall"]
       /\ UNCHANGED <<req, adapterCalls, result, sent>>
  ELSE /\ log' = [log EXCEPT ![r] = Append(@, catchLog(req[r].endpoint, cause))]
       /\ sent' = [sent EXCEPT ![r] = Append(@, catchResponse(r, cause))]
       /\ pc' = [pc EXCEPT ![r] = "done"]
       /\ UNCHANGED <<req, adapterCalls, backendCalls, delivered, result>>

\* the catch block of the handler
Catch(r, cause) ==
  /\ log' = [log EXCEPT ![r] = Append(@, catchLog(req[r].endpoint, cause))]
  /\ sent' = [sent EXCEPT ![r] = Append(@, catchResponse(r, cause))]
  /\ pc' = [pc EXCEPT ![r] = "done"]
  /\ UNCHANGED <<req, adapterCalls, backendCalls, delivered, result>>

\* the awaited backend call rejects
CallRejects(r, cause) ==
  /\ pc[r] = "awaitCall"
  /\ Catch(r, cause)

\* the stream faults between two chunks
StreamFaults(r, cause) ==
  /\ pc[r] = "streaming"
  /\ Catch(r, cause)

\* the exchange is over: nothing of the invocation is kept.
Close(r) ==
  /\ pc[r] = "done"
  /\ pc' = [pc EXCEPT ![r] = "idle"]
  /\ req' = [req EXCEPT ![r] = NoReq]
  /\ adapterCalls' = [adapterCalls EXCEPT ![r] = << >>]
  /\ backendCalls' = [backendCalls EXCEPT ![r] = << >>]
  /\ delivered' = [delivered EXCEPT ![r] = << >>]
  /\ result' = [result EXCEPT ![r] = Undefined]
  /\ sent' = [sent EXCEPT ![r] = << >>]
  /\ log' = [log EXCEPT ![r] = << >>]

(***************************************************************************)
(* Spec: requests of every shape, served one at a time.                    *)
(***************************************************************************)
Quiet == \A q \in Reqs : pc[q] = "idle"

TextArrives == \E r \in Reqs, text \in Texts, p \in Providers :
  Quiet /\ PostApiText(r, text, p)
ImageArrives == \E r \in Reqs, file \in Files, q \in Questions, p \in Providers :
  Quiet /\ PostApiImage(r, file, q, p)
PdfArrives == \E r \in Reqs, file \in Files, q \in Questions, p \in Providers :
  Quiet /\ PostApiPdf(r, file, q, p)
AdapterStep == \E r \in Reqs : AdapterReturns(r)
CompletionStep == \E r \in Reqs, response \in Completions : CompletionResolves(r, response)
OpenStep == \E r \in Reqs : StreamOpens(r)
YieldStep == \E r \in Reqs, chunk \in Chunks : StreamYields(r, chunk)
EndStep == \E r \in Reqs : StreamEnds(r)
RejectStep == \E r \in Reqs, cause \in Causes : CallRejects(r, cause)
FaultStep == \E r \in Reqs, cause \in Causes : StreamFaults(r, cause)
CloseStep == \E r \in Reqs : Close(r)

Resume ==
  \/ AdapterStep
  \/ CompletionStep
  \/ OpenStep
  \/ EndStep
  \/ RejectStep
  \/ FaultStep
  \/ CloseStep

Next ==
  \/ TextArrives
  \/ ImageArrives
  \/ PdfArrives
  \/ YieldStep
  \/ Resume

Spec == Init /\ [][Next]_vars

(***************************************************************************)
(* SpecLive: Spec, where every awaited promise settles and every stream    *)
(* ends or faults, and the event loop resumes the handler that waits.      *)
(***************************************************************************)
Settle(r) ==
  \/ AdapterReturns(r)
  \/ \E response \in Completions : CompletionResolves(r, response)
  \/ StreamOpens(r)
  \/ StreamEnds(r)
  \/ \E cause \in Causes : CallRejects(r, cause)
  \/ \E cause \in Causes : StreamFaults(r, cause)

SpecLive == Init /\ [][Next]_vars /\ \A r \in Reqs : WF_vars(Settle(r))

(***************************************************************************)
(* SpecConc: requests arrive while others are in flight.                   *)
(***************************************************************************)
ConcTextRequests == {<<Str("hello"), Undefined>>, <<Str("bonjour"), Str("openai")>>,
                     <<Str("hallo"), Str("deepseek")>>}
ConcImage == [mimetype |-> "image/png", buffer |-> <<77, 97>>]
ConcPdf == [mimetype |-> "application/pdf", buffer |-> <<37, 80, 68, 70>>]

TextArrivesConc == \E r \in Reqs, tp \in ConcTextRequests : PostApiText(r, tp[1], tp[2])
ImageArrivesConc == \E r \in Reqs : PostApiImage(r, ConcImage, Undefined, Str("deepseek"))
PdfArrivesConc == \E r \in Reqs : PostApiPdf(r, ConcPdf, Undefined, Undefined)

\* the chunks of the streams of SpecConc all carry text
ConcChunks == {[text |-> Str("Hel")], [text |-> Str("lo")]}
YieldStepConc == \E r \in Reqs, chunk \in ConcChunks : StreamYields(r, chunk)

NextConc ==
  \/ TextArrivesConc
  \/ ImageArrivesConc
  \/ PdfArrivesConc
  \/ YieldStepConc
  \/ Resume

SpecConc == Init /\ [][NextConc]_vars

(***************************************************************************)
(* Vocabulary of the properties.                                           *)
(***************************************************************************)
KnownProviders == {Str("google"), Str("openai"), Str("deepseek")}

Started(r) == pc[r] # "idle"
Statuses(r) == {sent[r][i].status : i \in 1..Len(sent[r])}
NoCall(r) == adapterCalls[r] = << >> /\ backendCalls[r] = << >>

\* s occurs in t
Contains(t, s) == \E i \in 1..(Len(t) - Len(s) + 1) : SubSeq(t, i, i + Len(s) - 1) = s

IsImageFile(file) ==
  /\ file # Undefined
  /\ Len(file.mimetype) >= 6
  /\ SubSeq(file.mimetype, 1, 6) = "image/"
IsPdfFile(file) == file # Undefined /\ file.mimetype = "application/pdf"

ValidPayload(q) ==
  CASE q.endpoint = "text" -> q.text.t = "string" /\ q.text.v # ""
    [] q.endpoint = "image" -> IsImageFile(q.file)
    [] q.endpoint = "pdf" -> IsPdfFile(q.file)
    [] OTHER -> FALSE

\* the prompt a backend call carries
PromptSent(call) ==
  IF call.client = "googleAI" THEN call.parts[Len(call.parts)].text
  ELSE call.user[1].text

\* what the handlers do for a request whose provider is omitted
OmittedAdapterCalls(q) ==
  CASE q.endpoint = "text" ->
         <<[fn |-> "processTextWithGoogle", args |-> <<q.text>>]>>
    [] q.endpoint = "image" ->
         <<[fn |-> "processImageWithGoogle",
            args |-> <<toBase64(q.file.buffer), q.file.mimetype,
                       IF q.question \in {Undefined, Str("")}
                       THEN Str("What are you seeing in this picture?")
                       ELSE q.question>>]>>
    [] OTHER -> << >>
OmittedBackendClient == "googleAI"

(***************************************************************************)
(* C1: on each of the three endpoints, a valid request whose provider is   *)
(* not 'google', 'openai' or 'deepseek' (unknown, null, empty or absent)   *)
(* invokes the google adapter with the arguments the request without       *)
(* provider gets, calls the Google backend once, and gets no error         *)
(* response from the resolution of the provider.                           *)
(***************************************************************************)
C1_UnknownProviderIsDefault ==
  \A r \in Reqs :
    (Started(r) /\ ValidPayload(req[r]) /\ req[r].provider \notin KnownProviders) =>
      /\ adapterCalls[r] = OmittedAdapterCalls(req[r])
      /\ Len(backendCalls[r]) = 1
      /\ backendCalls[r][1].client = OmittedBackendClient
      /\ backendCalls[r][1].method = "generateContentStream"
      /\ backendCalls[r][1].parts[1] =
           (IF req[r].endpoint = "text" THEN [text |-> req[r].text]
            ELSE [inlineData |-> [data |-> toBase64(req[r].file.buffer),
                                  mimeType |-> req[r].file.mimetype]])
      /\ PromptSent(backendCalls[r][1]) =
           (CASE req[r].endpoint = "text" -> req[r].text
              [] req[r].question \notin {Undefined, Str("")} -> req[r].question
              [] req[r].endpoint = "image" -> Str("What are you seeing in this picture?")
              [] OTHER -> Str("What are you seeing in this PDF?"))
      /\ 400 \notin Statuses(r)
      /\ pc[r] = "awaitCall" => sent[r] = << >>

C1_Witness ==
  \E r \in Reqs :
    /\ req[r].endpoint = "pdf"
    /\ req[r].provider = Str("unknown-id")
    /\ pc[r] = "awaitCall"
    /\ backendCalls[r][1].client = "googleAI"

(***************************************************************************)
(* C2: /api/text with text '', null or undefined answers 400 'Text is      *)
(* required' whatever the provider, and invokes no adapter and no backend. *)
(***************************************************************************)
C2_EmptyTextIsRejected ==
  \A r \in Reqs :
    (Started(r) /\ req[r].endpoint = "text"
       /\ req[r].text \in {Str(""), Null, Undefined}) =>
      /\ pc[r] = "done"
      /\ sent[r] = <<Response(400, [error |-> "Text is required"])>>
      /\ NoCall(r)

C2_Witness ==
  \E r \in Reqs :
    /\ req[r].endpoint = "text"
    /\ req[r].text = Null
    /\ req[r].provider = Str("unknown-id")
    /\ sent[r] = <<Response(400, [error |-> "Text is required"])>>

(***************************************************************************)
(* C3: /api/image without a file, or with a file whose MIME type does not  *)
(* start with 'image/', answers 400 whatever the provider ('deepseek'      *)
(* included), and invokes no adapter and no backend.                       *)
(***************************************************************************)
C3_NonImageIsRejected ==
  \A r \in Reqs :
    (Started(r) /\ req[r].endpoint = "image" /\ ~IsImageFile(req[r].file)) =>
      /\ pc[r] = "done"
      /\ Len(sent[r]) = 1
      /\ sent[r][1].status = 400
      /\ sent[r][1].body \in {[error |-> "Image file is required"],
                              [error |-> "File must be an image"]}
      /\ NoCall(r)

C3_Witness ==
  \E r \in Reqs :
    /\ req[r].endpoint = "image"
    /\ req[r].provider = Str("deepseek")
    /\ req[r].file # Undefined
    /\ req[r].file.mimetype = "application/pdf"
    /\ sent[r] = <<Response(400, [error |-> "File must be an image"])>>

(***************************************************************************)
(* C4: /api/pdf without a file, or with a file whose MIME type is not      *)
(* exactly 'application/pdf', answers 400 whatever the provider ('openai'  *)
(* and 'deepseek' included), and makes no backend call.                    *)
(***************************************************************************)
C4_NonPdfIsRejected ==
  \A r \in Reqs :
    (Started(r) /\ req[r].endpoint = "pdf" /\ ~IsPdfFile(req[r].file)) =>
      /\ pc[r] = "done"
      /\ Len(sent[r]) = 1
      /\ sent[r][1].status = 400
      /\ sent[r][1].body \in {[error |-> "PDF file is required"],
                              [error |-> "File must be a PDF"]}
      /\ NoCall(r)

C4_Witness ==
  \E r \in Reqs :
    /\ req[r].endpoint = "pdf"
    /\ req[r].provider = Str("openai")
    /\ req[r].file # Undefined
    /\ req[r].file.mimetype = "application/pdf;v=1"
    /\ sent[r] = <<Response(400, [error |-> "File must be a PDF"])>>

(***************************************************************************)
(* C5: /api/image with provider 'deepseek' and a file of an image/* type   *)
(* answers 200 with a response whose single 'error' field names DeepSeek   *)
(* and image analysis; it answers neither 400 nor 500 and calls no         *)
(* backend.                                                                *)
(***************************************************************************)
DeepSeekImageGap == "{\"error\":\"DeepSeek does not currently support image analysis\"}"

C5_DeepSeekImageIsGap ==
  \A r \in Reqs :
    (Started(r) /\ req[r].endpoint = "image" /\ req[r].provider = Str("deepseek")
       /\ IsImageFile(req[r].file)) =>
      /\ backendCalls[r] = << >>
      /\ log[r] = << >>
      /\ pc[r] \in {"awaitAdapter", "done"}
      /\ pc[r] = "awaitAdapter" => sent[r] = << >>
      /\ pc[r] = "done" =>
           /\ sent[r] = <<Response(200, [response |-> Str(DeepSeekImageGap)])>>
           /\ LET payload == sent[r][1].body.response.v
              IN /\ SubSeq(payload, 1, 10) = "{\"error\":\""
                 /\ Contains(payload, "DeepSeek")
                 /\ Contains(payload, "image")

C5_Witness ==
  \E r \in Reqs :
    /\ req[r].endpoint = "image"
    /\ req[r].provider = Str("deepseek")
    /\ IsImageFile(req[r].file)
    /\ pc[r] = "done"
    /\ sent[r][1].status = 200

(***************************************************************************)
(* C6: /api/pdf with provider 'openai' or 'deepseek' and a file of type    *)
(* 'application/pdf' answers 200 with a response whose 'error' field names *)
(* that provider, not the other, and PDF analysis, and calls no backend;   *)
(* a backend call of /api/pdf is for another provider value.               *)
(***************************************************************************)
C6_PdfGapNamesProvider ==
  \A r \in Reqs :
    (Started(r) /\ req[r].endpoint = "pdf") =>
      /\ (IsPdfFile(req[r].file) /\ req[r].provider \in {Str("openai"), Str("deepseek")}) =>
           /\ pc[r] = "done"
           /\ backendCalls[r] = << >>
           /\ Len(sent[r]) = 1
           /\ sent[r][1].status = 200
           /\ LET payload == sent[r][1].body.response.v
                  other == IF req[r].provider = Str("openai") THEN "deepseek" ELSE "openai"
              IN /\ payload = "{\"error\":\"" \o req[r].provider.v
                                \o " does not currently support PDF analysis\"}"
                 /\ Contains(payload, req[r].provider.v)
                 /\ ~Contains(payload, other)
                 /\ Contains(payload, "PDF")
      /\ backendCalls[r] # << >> =>
           req[r].provider \notin {Str("openai"), Str("deepseek")}

C6_Witness ==
  \E r \in Reqs :
    /\ req[r].endpoint = "pdf"
    /\ req[r].provider = Str("deepseek")
    /\ IsPdfFile(req[r].file)
    /\ sent[r][1].status = 200
    /\ Contains(sent[r][1].body.response.v, "deepseek")

(***************************************************************************)
(* C7: the prompt handed to the adapter and sent to the backend by         *)
(* /api/image and /api/pdf.                                                *)
(***************************************************************************)
DefaultPrompt(endpoint) ==
  IF endpoint = "image" THEN Str("What are you seeing in this picture?")
  ELSE Str("What are you seeing in this PDF?")

\* every prompt the invocation has handed to an adapter or to a backend
PromptsHanded(r) ==
  {adapterCalls[r][i].args[3] : i \in 1..Len(adapterCalls[r])}
    \cup {PromptSent(backendCalls[r][i]) : i \in 1..Len(backendCalls[r])}

\* C7 as claimed: an omitted question gives the default prompt of the
\* endpoint, a supplied question is handed on unchanged.
C7_SuppliedQuestionUnchanged ==
  \A r \in Reqs :
    (Started(r) /\ req[r].endpoint \in {"image", "pdf"}) =>
      \A prompt \in PromptsHanded(r) :
        /\ req[r].question = Undefined => prompt = DefaultPrompt(req[r].endpoint)
        /\ req[r].question # Undefined => prompt = req[r].question

\* C7 as amended: an omitted or empty question gives the default prompt of
\* the endpoint, a non-empty question is handed on unchanged.
C7_NonEmptyQuestionUnchanged ==
  \A r \in Reqs :
    (Started(r) /\ req[r].endpoint \in {"image", "pdf"}) =>
      \A prompt \in PromptsHanded(r) :
        /\ req[r].question \in {Undefined, Str("")} =>
             prompt = DefaultPrompt(req[r].endpoint)
        /\ req[r].question \notin {Undefined, Str("")} => prompt = req[r].question

C7_Witness ==
  \E r \in Reqs :
    /\ req[r].endpoint = "image"
    /\ req[r].question = Str("")
    /\ req[r].provider = Str("openai")
    /\ PromptsHanded(r) = {Str("What are you seeing in this picture?")}
    /\ Len(backendCalls[r]) = 1

(***************************************************************************)
(* C8: the string a streamed call returns is the concatenation, in         *)
(* delivery order, of the text of the chunks the stream has yielded, with  *)
(* nothing added or dropped, and it is returned when the stream has ended. *)
(***************************************************************************)
Streamed(r) ==
  /\ backendCalls[r] # << >>
  /\ backendCalls[r][1].method = "generateContentStream"

\* the text of the chunks, in order; a chunk without text has none
RECURSIVE TextOfChunks(_)
TextOfChunks(chunks) ==
  IF chunks = << >> THEN ""
  ELSE (IF Head(chunks).text.t = "string" THEN Head(chunks).text.v ELSE "")
         \o TextOfChunks(Tail(chunks))

C8_StreamIsConcatenation ==
  \A r \in Reqs :
    Streamed(r) =>
      /\ pc[r] = "streaming" =>
           /\ result[r] = Str(TextOfChunks(delivered[r]))
           /\ sent[r] = << >>
      /\ (pc[r] = "done" /\ log[r] = << >>) =>
           sent[r] = <<Response(200, [response |-> Str(TextOfChunks(delivered[r]))])>>

(***************************************************************************)
(* C9: requests in flight together do not touch one another: what an       *)
(* invocation has accumulated, and what it answers, is made of the answers *)
(* of its own backend call to its own input, and an invocation can always  *)
(* go on whatever the others are waiting for.                              *)
(***************************************************************************)
\* what `result += chunk.text` makes of the chunks, in order
RECURSIVE Accumulated(_)
Accumulated(chunks) ==
  IF chunks = << >> THEN ""
  ELSE JSToString(Head(chunks).text) \o Accumulated(Tail(chunks))

OwnInput(r) ==
  \A i \in 1..Len(backendCalls[r]) :
    IF req[r].endpoint = "text" THEN PromptSent(backendCalls[r][i]) = req[r].text
    ELSE backendCalls[r][i].parts[1].inlineData.data = toBase64(req[r].file.buffer)

OwnAnswer(r) ==
  IF Streamed(r)
  THEN /\ pc[r] = "streaming" => result[r] = Str(Accumulated(delivered[r]))
       /\ (pc[r] = "done" /\ log[r] = << >>) =>
            sent[r] = <<Response(200, [response |-> Str(Accumulated(delivered[r]))])>>
  ELSE (pc[r] = "done" /\ log[r] = << >> /\ backendCalls[r] # << >>) =>
         /\ Len(delivered[r]) = 1
         /\ sent[r] = <<Response(200, [response |-> completionContent(delivered[r][1])])>>

NotBlocked(r) ==
  /\ Pending(r, "create") => \A response \in Completions : ENABLED CompletionResolves(r, response)
  /\ Pending(r, "generateContentStream") => ENABLED StreamOpens(r)
  /\ pc[r] = "streaming" => ENABLED StreamEnds(r)
  /\ pc[r] = "awaitAdapter" => ENABLED AdapterReturns(r)

C9_RequestsAreIsolated ==
  \A r \in Reqs : Started(r) => (OwnInput(r) /\ OwnAnswer(r) /\ NotBlocked(r))

C9_Witness ==
  \E r, q \in Reqs :
    /\ pc[r] = "done"
    /\ req[r].provider = Str("openai")
    /\ sent[r] = <<Response(200, [response |-> Str("{\"ok\":1}")])>>
    /\ pc[q] = "streaming"
    /\ req[q].provider = Undefined
    /\ result[q] = Str("Hello")

(***************************************************************************)
(* C10: a backend call that rejects, or a stream that faults, ends its     *)
(* request with 500 'Internal server error' as its only response; the      *)
(* cause goes to the log and not into the response, nothing accumulated is *)
(* sent, and no other invocation changes.                                  *)
(***************************************************************************)
OthersUnchanged(r) ==
  \A q \in Reqs \ {r} :
    /\ pc'[q] = pc[q]
    /\ req'[q] = req[q]
    /\ adapterCalls'[q] = adapterCalls[q]
    /\ backendCalls'[q] = backendCalls[q]
    /\ delivered'[q] = delivered[q]
    /\ result'[q] = result[q]
    /\ sent'[q] = sent[q]
    /\ log'[q] = log[q]

FaultStep10(r, cause) == CallRejects(r, cause) \/ StreamFaults(r, cause)

C10_FaultIsUpstreamError ==
  [][\A r \in Reqs, cause \in Causes :
       FaultStep10(r, cause) =>
         /\ pc'[r] = "done"
         /\ sent'[r] = <<Response(500, [error |-> "Internal server error"])>>
         /\ ~Contains(sent'[r][1].body.error, cause)
         /\ Contains(log'[r][Len(log'[r])], cause)
         /\ OthersUnchanged(r)]_vars

C10_Witness ==
  \E r, q \in Reqs :
    /\ r # q
    /\ Streamed(r)
    /\ delivered[r] # << >>
    /\ log[r] # << >>
    /\ sent[r] = <<Response(500, [error |-> "Internal server error"])>>
    /\ pc[q] = "streaming"
    /\ result[q] = Str("Hel")

(***************************************************************************)
(* C11: a request makes at most one backend call: exactly one when it      *)
(* passes validation and its provider supports the modality, none when it  *)
(* fails validation or meets a capability gap; after a fault the request   *)
(* is answered at once and its call is not made again.                     *)
(***************************************************************************)
SupportsModality(q) ==
  CASE q.endpoint = "text" -> TRUE
    [] q.endpoint = "image" -> q.provider # Str("deepseek")
    [] OTHER -> q.provider \notin {Str("openai"), Str("deepseek")}

C11_NoRetry ==
  \A r \in Reqs :
    Started(r) =>
      /\ Len(backendCalls[r]) =
           (IF ValidPayload(req[r]) /\ SupportsModality(req[r]) THEN 1 ELSE 0)
      /\ log[r] # << >> =>
           /\ Len(log[r]) = 1
           /\ pc[r] = "done"
           /\ sent[r] = <<Response(500, [error |-> "Internal server error"])>>

C11_Witness ==
  \E r \in Reqs :
    /\ pc[r] = "done"
    /\ req[r].endpoint = "image"
    /\ req[r].provider = Str("openai")
    /\ log[r] # << >>
    /\ Len(backendCalls[r]) = 1
    /\ sent[r][1].status = 500

(***************************************************************************)
(* C12: /api/text with a non-empty text and provider 'google', 'openai' or *)
(* 'deepseek' is never answered 400, and the response of a 200 is a        *)
(* string, never null or undefined: the empty string when the completion   *)
(* has no choice or no content, or when the stream yields no chunk.        *)
(***************************************************************************)
NoContent(r) ==
  IF Streamed(r) THEN delivered[r] = << >>
  ELSE \/ delivered[r][1].choices = << >>
       \/ delivered[r][1].choices[1].message.content \in {Null, Str("")}

C12_TextResultIsString ==
  \A r \in Reqs :
    (Started(r) /\ req[r].endpoint = "text" /\ req[r].provider \in KnownProviders
       /\ req[r].text.t = "string" /\ req[r].text.v # "") =>
      /\ 400 \notin Statuses(r)
      /\ \A i \in 1..Len(sent[r]) :
           sent[r][i].status = 200 =>
             /\ DOMAIN sent[r][i].body = {"response"}
             /\ sent[r][i].body.response.t = "string"
             /\ sent[r][i].body.response = result[r]
             /\ NoContent(r) => sent[r][i].body.response = Str("")

C12_Witness ==
  \E r \in Reqs :
    /\ pc[r] = "done"
    /\ req[r].endpoint = "text"
    /\ req[r].provider = Str("deepseek")
    /\ req[r].text = Str("hello")
    /\ delivered[r] = <<[choices |-> << >>]>>
    /\ sent[r] = <<Response(200, [response |-> Str("")])>>

(***************************************************************************)
(* C13: a request gets one response and no more, and the response is one   *)
(* of 400 with an error (the payload is invalid), 200 with a response      *)
(* string, 500 with an error (the backend faulted); no response is sent    *)
(* while the backend call or the stream is pending, and once the call      *)
(* settles and the stream ends or faults the response is sent.             *)
(***************************************************************************)
WellFormed(response) ==
  \/ /\ response.status = 200
     /\ DOMAIN response.body = {"response"}
     /\ response.body.response.t = "string"
  \/ /\ response.status \in {400, 500}
     /\ DOMAIN response.body = {"error"}

AnsweredOnce(r) ==
  /\ Len(sent[r]) <= 1
  /\ \A i \in 1..Len(sent[r]) : WellFormed(sent[r][i])
  /\ pc[r] \in {"idle", "awaitCall", "awaitAdapter", "streaming"} => sent[r] = << >>
  /\ pc[r] = "done" =>
       /\ Len(sent[r]) = 1
       /\ sent[r][1].status = 400 <=> ~ValidPayload(req[r])
       /\ sent[r][1].status = 500 <=> log[r] # << >>

C13_AnsweredExactlyOnce ==
  /\ [](\A r \in Reqs : AnsweredOnce(r))
  /\ \A r \in Reqs : Started(r) ~> (pc[r] = "done" /\ Len(sent[r]) = 1)

C13_Witness ==
  \E r \in Reqs :
    /\ pc[r] = "done"
    /\ req[r].endpoint = "pdf"
    /\ Len(delivered[r]) = 2
    /\ log[r] = << >>
    /\ Len(sent[r]) = 1
    /\ sent[r][1].status = 200

====
